---- MODULE Spec2Model ----
(***************************************************************************)
(* State-machine model of the Cpu of src/src/lib.rs: four u64 registers,   *)
(* the cache array, the instruction image, the device list, and tick().    *)
(*                                                                         *)
(* A u64 is kept at its full width as a sequence of 8 bytes, least         *)
(* significant byte first, so that wrap-around, truncation (as u8) and the *)
(* big-endian operand fetch are computed and not assumed.                  *)
(*                                                                         *)
(* The arrays cache and instructions have 65535 elements each.  They are   *)
(* represented by their non-zero part: a function from the indices that    *)
(* were given a value to that value; every other index holds 0.            *)
(***************************************************************************)
EXTENDS Integers, Sequences, FiniteSets, TLC

\* The Cpu's fields.
VARIABLES reg_a, reg_b, reg_s, reg_x, cache, instructions, devices

\* The environment of a run: whether the build checks integer overflow (a
\* debug build panics on it, a release build wraps), how many times the
\* host calls tick(), and how many calls it has made.
VARIABLES overflow_checks, host_ticks, calls

\* What the last call of tick() did: the instruction it decoded, how it
\* ended, and the device methods it invoked, in order.
VARIABLES inst, outcome, bus

vars == <<reg_a, reg_b, reg_s, reg_x, cache, instructions, devices,
          overflow_checks, host_ticks, calls, inst, outcome, bus>>

\* ------------------------------------------------------------------ u64

Byte == 0..255

\* number of bytes of a u64
WordBytes == 8

Idx == 1..WordBytes

Zero == <<0, 0, 0, 0, 0, 0, 0, 0>>

\* the largest u64, 2^64 - 1
MaxWord == <<255, 255, 255, 255, 255, 255, 255, 255>>

\* the u64 of a literal n of the source, 0 <= n < 2^31
W(n) == <<n % 256, (n \div 256) % 256, (n \div 65536) % 256, n \div 16777216,
          0, 0, 0, 0>>

\* comparison of two u64, most significant byte first
RECURSIVE LessFrom(_, _, _)
LessFrom(a, b, i) ==
    IF i = 0 THEN FALSE
    ELSE IF a[i] # b[i] THEN a[i] < b[i]
    ELSE LessFrom(a, b, i - 1)

WLt(a, b) == LessFrom(a, b, WordBytes)
WLe(a, b) == a = b \/ WLt(a, b)

\* `arg as usize` of a u64 below 2^24, which fits a model integer
as_usize(w) == w[1] + 256 * w[2] + 65536 * w[3]

\* bytes i..8 of a + b + carry, then the carry out of the last byte
RECURSIVE AddFrom(_, _, _, _)
AddFrom(a, b, i, carry) ==
    IF i > WordBytes THEN <<carry>>
    ELSE <<(a[i] + b[i] + carry) % 256>>
         \o AddFrom(a, b, i + 1, (a[i] + b[i] + carry) \div 256)

\* a + b modulo 2^64, and whether the sum left the u64 range
WrappingAdd(a, b) == SubSeq(AddFrom(a, b, 1, 0), 1, WordBytes)
AddOverflows(a, b) == AddFrom(a, b, 1, 0)[WordBytes + 1] = 1

\* a - b modulo 2^64 is a + ~b + 1; it underflows exactly when a < b
Not(b) == <<255 - b[1], 255 - b[2], 255 - b[3], 255 - b[4],
            255 - b[5], 255 - b[6], 255 - b[7], 255 - b[8]>>
WrappingSub(a, b) == SubSeq(AddFrom(a, Not(b), 1, 1), 1, WordBytes)
SubOverflows(a, b) == WLt(a, b)

\* column k (1..16) of the schoolbook product: sum of a[i]*b[j], i+j = k+1
RECURSIVE ColFrom(_, _, _, _)
ColFrom(a, b, k, i) ==
    IF i > WordBytes THEN 0
    ELSE (IF k + 1 - i \in Idx THEN a[i] * b[k + 1 - i] ELSE 0)
         + ColFrom(a, b, k, i + 1)

\* bytes k..16 of the 128-bit product a * b
RECURSIVE MulFrom(_, _, _, _)
MulFrom(a, b, k, carry) ==
    IF k > 2 * WordBytes THEN <<>>
    ELSE <<(ColFrom(a, b, k, 1) + carry) % 256>>
         \o MulFrom(a, b, k + 1, (ColFrom(a, b, k, 1) + carry) \div 256)

\* a * b modulo 2^64, and whether the product left the u64 range
WrappingMul(a, b) == SubSeq(MulFrom(a, b, 1, 0), 1, WordBytes)
MulOverflows(a, b) ==
    SubSeq(MulFrom(a, b, 1, 0), WordBytes + 1, 2 * WordBytes) # Zero

\* bit n (0 = least significant) of a u64
Bit(w, n) == (w[(n \div 8) + 1] \div (2 ^ (n % 8))) % 2

\* bytes i..8 of 2*r + bit modulo 2^64
RECURSIVE Shl1From(_, _, _)
Shl1From(r, i, bit) ==
    IF i > WordBytes THEN <<>>
    ELSE <<((2 * r[i]) % 256) + bit>> \o Shl1From(r, i + 1, r[i] \div 128)

Shl1(r, bit) == Shl1From(r, 1, bit)

\* q with bit n, which is clear, set
SetBit(q, n) ==
    [q EXCEPT ![(n \div 8) + 1] = q[(n \div 8) + 1] + 2 ^ (n % 8)]

\* restoring long division, bit n down to bit 0: <<quotient, remainder>>
RECURSIVE DivFrom(_, _, _, _, _)
DivFrom(a, b, n, q, r) ==
    IF n < 0 THEN <<q, r>>
    ELSE IF r[WordBytes] >= 128 \/ WLe(b, Shl1(r, Bit(a, n)))
         THEN DivFrom(a, b, n - 1, SetBit(q, n), WrappingSub(Shl1(r, Bit(a, n)), b))
         ELSE DivFrom(a, b, n - 1, q, Shl1(r, Bit(a, n)))

\* a / b for b # 0
Quotient(a, b) == DivFrom(a, b, 8 * WordBytes - 1, Zero, Zero)[1]

\* --------------------------------------------------------------- arrays

\* cache: [u64; 65535] and instructions: [u8; 65535]
CacheLen == 65535
ImageLen == 65535

\* the last addresses of the two built-in regions of load_base/push_base
CacheTop == 65535
ImageTop == 131071

\* element i of an array kept by its non-zero part
CacheGet(c, i) == IF i \in DOMAIN c THEN c[i] ELSE Zero
ImageGet(p, i) == IF i \in DOMAIN p THEN p[i] ELSE 0

\* the n elements of the image from index i on
RECURSIVE ImageSlice(_, _, _)
ImageSlice(p, i, n) ==
    IF n = 0 THEN <<>> ELSE <<ImageGet(p, i)>> \o ImageSlice(p, i + 1, n - 1)

\* the array with element i set to v
ArraySet(arr, i, v) == [j \in (DOMAIN arr) \cup {i} |-> IF j = i THEN v ELSE arr[j]]

\* `byte as u64` and `val as u8`
as_u64(byte) == <<byte, 0, 0, 0, 0, 0, 0, 0>>
as_u8(w) == w[1]

\* ------------------------------------------------------------- results

None == <<>>

\* Result<_, CPUError> of one function, or the panic that unwinds out of it;
\* bus lists the device calls it made
Ok(v, log) == [tag |-> "Ok", val |-> v, err |-> "", bus |-> log]
Err(e, log) == [tag |-> "Err", val |-> None, err |-> e, bus |-> log]
Panic(log) == [tag |-> "Panic", val |-> None, err |-> "", bus |-> log]

\* ------------------------------------------------------------- decoder

\* the match of read_instruction: opcode byte b is OpTable[b + 1]
OpTable ==
    << "NoOp", "LoadBusA", "LoadBusB", "Add", "Subtract", "Multiply", "Divide",
       "CopyAB", "CopyBA", "SwapAB", "PushABus", "PushBBus", "LoadA", "LoadBusX",
       "CopyAX", "CopyBX", "PushXBus", "LoadX", "CopyXA", "CopyXB", "LoadBusAS",
       "LoadBusBS", "CopyAS", "CopyBS", "CopyXS", "CopySA", "CopySB", "CopySX",
       "SwapAS", "SwapBS", "PushABusS", "PushBBusS", "LoadBusXS", "PushXBusS",
       "SkipEq", "SkipGrEq", "SkipGr", "SkipLe", "SkipLeEq" >>

\* the opcode bytes whose arm calls get_args
ArgOpcodes == {1, 2, 10, 11, 12, 13, 16, 17}

\* u64::from_be_bytes: the first byte of the slice is the most significant
from_le_bytes(s) == <<s[1], s[2], s[3], s[4], s[5], s[6], s[7], s[8]>>
from_be_bytes(s) == <<s[8], s[7], s[6], s[5], s[4], s[3], s[2], s[1]>>

\* the slice with end past the array panics
SliceInRangeOffByOne(end) == WLe(end, W(ImageLen + 1))
SliceInRange(end) == WLe(end, W(ImageLen))

\* get_args: the 8 bytes instructions[start .. start+8], big-endian
get_args(p, start) ==
    IF AddOverflows(start, W(WordBytes)) THEN Panic(<<>>)
    ELSE IF ~SliceInRange(WrappingAdd(start, W(WordBytes))) THEN Panic(<<>>)
    ELSE Ok(from_be_bytes(ImageSlice(p, as_usize(start), WordBytes)), <<>>)

\* instructions.get(i): Some(byte) for an index of the array, else None
IndexInRangeOffByOne(i) == WLe(i, W(ImageLen))
IndexInRange(i) == WLt(i, W(ImageLen))

Instr(op, arg) == [op |-> op, arg |-> arg]

\* the arm of opcode byte b
DecodeByteOffByOne(p, x, b) ==
    IF b <= 39 /\ b >= Len(OpTable) THEN Ok(Instr("NoOp", None), <<>>)
    ELSE IF b >= Len(OpTable) THEN Err("IllegalInstruction", <<>>)
    ELSE IF b \in ArgOpcodes
         THEN LET a == get_args(p, x)
              IN IF a.tag = "Ok" THEN Ok(Instr(OpTable[b + 1], a.val), <<>>) ELSE a
    ELSE Ok(Instr(OpTable[b + 1], None), <<>>)
DecodeByte(p, x, b) ==
    IF b >= Len(OpTable) THEN Err("IllegalInstruction", <<>>)
    ELSE IF b \in ArgOpcodes
         THEN LET a == get_args(p, x)
              IN IF a.tag = "Ok" THEN Ok(Instr(OpTable[b + 1], a.val), <<>>) ELSE a
    ELSE Ok(Instr(OpTable[b + 1], None), <<>>)

\* read_instruction with reg_x = x (already incremented by tick)
read_instruction(p, x) ==
    IF x = Zero
    THEN \* reg_x - 1 underflows
         IF overflow_checks THEN Panic(<<>>) ELSE Err("OutOfInstructions", <<>>)
    ELSE LET i == WrappingSub(x, W(1))
         IN IF ~IndexInRange(i) THEN Err("OutOfInstructions", <<>>)
            ELSE DecodeByte(p, x, ImageGet(p, as_usize(i)))

\* -------------------------------------------------------- address router

\* (min..=max).contains(&arg) of device d
ClaimsUpToMax(d, arg) == WLe(arg, d.max)
Claims(d, arg) == WLe(d.min, arg) /\ WLe(arg, d.max)

BusCall(i, op, addr, val) == [dev |-> i, op |-> op, addr |-> addr, val |-> val]

\* the for loop of load_base from device i on: success is None or the value
\* of the last device that claimed arg; vals[i] is what device i's load gives
RECURSIVE LoadScanFirstWins(_, _, _, _, _, _)
LoadScanFirstWins(devs, arg, vals, i, success, log) ==
    IF i > Len(devs) THEN <<success, log>>
    ELSE IF Claims(devs[i], arg)
         THEN LoadScanFirstWins(devs, arg, vals, i + 1,
                                IF success = None THEN <<vals[i]>> ELSE success,
                                Append(log, BusCall(i, "load", arg, vals[i])))
         ELSE LoadScanFirstWins(devs, arg, vals, i + 1, success, log)
RECURSIVE LoadScan(_, _, _, _, _, _)
LoadScan(devs, arg, vals, i, success, log) ==
    IF i > Len(devs) THEN <<success, log>>
    ELSE IF Claims(devs[i], arg)
         THEN LoadScan(devs, arg, vals, i + 1, <<vals[i]>>,
                       Append(log, BusCall(i, "load", arg, vals[i])))
         ELSE LoadScan(devs, arg, vals, i + 1, success, log)

\* the for loop of push_base from device i on
RECURSIVE PushScan(_, _, _, _, _, _)
PushScan(devs, arg, val, i, success, log) ==
    IF i > Len(devs) THEN <<success, log>>
    ELSE IF Claims(devs[i], arg)
         THEN PushScan(devs, arg, val, i + 1, TRUE,
                       Append(log, BusCall(i, "push", arg, val)))
         ELSE PushScan(devs, arg, val, i + 1, success, log)

\* the end of load_base's device arm: the value found, or the error
LoadFoundOrZero(arg, success, log) ==
    IF success # None THEN Ok(success[1], log) ELSE Ok(Zero, log)
LoadFound(arg, success, log) ==
    IF success # None THEN Ok(success[1], log)
    ELSE Err("IllegalAddressLoad", log)

\* load_base: val is the value loaded
load_base(c, p, devs, vals, arg) ==
    IF WLe(arg, W(CacheTop))
    THEN IF as_usize(arg) < CacheLen
         THEN Ok(CacheGet(c, as_usize(arg)), <<>>)
         ELSE Panic(<<>>)
    ELSE IF WLe(arg, W(ImageTop))
    THEN IF as_usize(arg) < ImageLen
         THEN Ok(as_u64(ImageGet(p, as_usize(arg))), <<>>)
         ELSE Panic(<<>>)
    ELSE LET r == LoadScan(devs, arg, vals, 1, None, <<>>)
         IN LoadFound(arg, r[1], r[2])

\* push_base: val is <<cache, instructions>> after the store
push_baseImageTopExclusive(c, p, devs, arg, val) ==
    IF WLe(arg, W(CacheTop))
    THEN IF as_usize(arg) < CacheLen
         THEN Ok(<<ArraySet(c, as_usize(arg), val), p>>, <<>>)
         ELSE Panic(<<>>)
    ELSE IF WLt(arg, W(ImageTop))
    THEN IF as_usize(arg) < ImageLen
         THEN Ok(<<c, ArraySet(p, as_usize(arg), as_u8(val))>>, <<>>)
         ELSE Panic(<<>>)
    ELSE LET r == PushScan(devs, arg, val, 1, FALSE, <<>>)
         IN IF r[1] THEN Ok(<<c, p>>, r[2])
            ELSE Err("IllegalAddressPush", r[2])
push_base(c, p, devs, arg, val) ==
    IF WLe(arg, W(CacheTop))
    THEN IF as_usize(arg) < CacheLen
         THEN Ok(<<ArraySet(c, as_usize(arg), val), p>>, <<>>)
         ELSE Panic(<<>>)
    ELSE IF WLe(arg, W(ImageTop))
    THEN IF as_usize(arg) < ImageLen
         THEN Ok(<<c, ArraySet(p, as_usize(arg), as_u8(val))>>, <<>>)
         ELSE Panic(<<>>)
    ELSE LET r == PushScan(devs, arg, val, 1, FALSE, <<>>)
         IN IF r[1] THEN Ok(<<c, p>>, r[2])
            ELSE Err("IllegalAddressPush", r[2])

\* ------------------------------------------------------------ execution

\* what a call leaves behind: the fields it can write, how it ended
\* ("Ok", an error's name, "Panic", or "Unit" for an arm whose body is the
\* empty block and so yields no Result), and the device calls it made
After(a, b, c, p, out, log) ==
    [a |-> a, b |-> b, cache |-> c, instructions |-> p, outcome |-> out, bus |-> log]

Ended(r) == IF r.tag = "Err" THEN r.err ELSE r.tag

\* an arithmetic arm: the checked build panics on overflow, the other wraps
ArithDropsResult(a, b, c, p, overflows, wrapped) ==
    IF overflows /\ overflow_checks
    THEN After(a, b, c, p, "Panic", <<>>)
    ELSE After(a, b, c, p, "Ok", <<>>)
Arith(a, b, c, p, overflows, wrapped) ==
    IF overflows /\ overflow_checks
    THEN After(a, b, c, p, "Panic", <<>>)
    ELSE After(wrapped, b, c, p, "Ok", <<>>)

\* the instruction variants process_instruction has an arm for
Variants == {OpTable[k] : k \in 1..Len(OpTable)} \cup {"LoadB"}

\* process_instruction on registers a, b and the arrays c, p
process_instruction(a, b, c, p, devs, vals, i) ==
    CASE i.op = "NoOp" -> After(a, b, c, p, "Ok", <<>>)
      [] i.op = "LoadBusA" ->
            LET r == load_base(c, p, devs, vals, i.arg)
            IN IF r.tag = "Ok" THEN After(r.val, b, c, p, "Ok", r.bus)
               ELSE After(a, b, c, p, Ended(r), r.bus)
      [] i.op = "LoadBusB" ->
            LET r == load_base(c, p, devs, vals, i.arg)
            IN IF r.tag = "Ok" THEN After(a, r.val, c, p, "Ok", r.bus)
               ELSE After(a, b, c, p, Ended(r), r.bus)
      [] i.op = "Add" -> Arith(a, b, c, p, AddOverflows(a, b), WrappingAdd(a, b))
      [] i.op = "Subtract" -> Arith(a, b, c, p, SubOverflows(a, b), WrappingSub(a, b))
      [] i.op = "Multiply" -> Arith(a, b, c, p, MulOverflows(a, b), WrappingMul(a, b))
      [] i.op = "Divide" ->
            IF b = Zero THEN After(a, b, c, p, "Panic", <<>>)
            ELSE After(Quotient(a, b), b, c, p, "Ok", <<>>)
      [] i.op = "CopyAB" -> After(a, a, c, p, "Ok", <<>>)
      [] i.op = "CopyBA" -> After(b, b, c, p, "Ok", <<>>)
      [] i.op = "SwapAB" -> After(b, a, c, p, "Ok", <<>>)
      [] i.op = "PushABus" ->
            LET r == push_base(c, p, devs, i.arg, a)
            IN IF r.tag = "Ok" THEN After(a, b, r.val[1], r.val[2], "Ok", r.bus)
               ELSE After(a, b, c, p, Ended(r), r.bus)
      [] OTHER -> After(a, b, c, p, "Unit", <<>>)

\* the decoded instruction recorded when decoding failed or never ran
NoInst == Instr("None", None)

\* tick() from the current state, device i answering a load with vals[i]:
\* reg_x += 1, then read_instruction()?, then process_instruction
tickRewindsOnFailure(vals) ==
    IF AddOverflows(reg_x, W(1)) /\ overflow_checks
    THEN [x |-> reg_x, inst |-> NoInst,
          after |-> After(reg_a, reg_b, cache, instructions, "Panic", <<>>)]
    ELSE LET x == WrappingAdd(reg_x, W(1))
             d == read_instruction(instructions, x)
         IN IF d.tag # "Ok"
            THEN [x |-> Zero, inst |-> NoInst,
                  after |-> After(reg_a, reg_b, cache, instructions, Ended(d), <<>>)]
            ELSE [x |-> x, inst |-> d.val,
                  after |-> process_instruction(reg_a, reg_b, cache, instructions,
                                                devices, vals, d.val)]
tick(vals) ==
    IF AddOverflows(reg_x, W(1)) /\ overflow_checks
    THEN [x |-> reg_x, inst |-> NoInst,
          after |-> After(reg_a, reg_b, cache, instructions, "Panic", <<>>)]
    ELSE LET x == WrappingAdd(reg_x, W(1))
             d == read_instruction(instructions, x)
         IN IF d.tag # "Ok"
            THEN [x |-> x, inst |-> NoInst,
                  after |-> After(reg_a, reg_b, cache, instructions, Ended(d), <<>>)]
            ELSE [x |-> x, inst |-> d.val,
                  after |-> process_instruction(reg_a, reg_b, cache, instructions,
                                                devices, vals, d.val)]

\* --------------------------------------------------------------- inputs

\* the calls of tick() the host makes on a short program
HeadTicks == 28

\* the calls the host makes past the end of the image in a run to its end
TailExtra == 2

\* a device owning the inclusive range [lo, hi], lo and hi below 2^31
Dev(lo, hi) == [min |-> W(lo), max |-> W(hi)]

\* the device lists of the runs: none, two devices with disjoint ranges
\* (0x20000..0x2000F and 0x30000..0x3000F), two with overlapping ranges
NoDevices == <<>>
TwoDevices == <<Dev(131072, 131087), Dev(196608, 196623)>>
Overlapping == <<Dev(131072, 196623), Dev(196608, 196623)>>
Covering == <<Dev(0, 196623)>>
DeviceLists == {NoDevices, TwoDevices, Overlapping, Covering}

\* the values a device's load answers with: 5, 0x1FF, 2^64 - 1
DevValues == {W(5), W(511), MaxWord}

\* the image holding the bytes of seq from index at on, 0 elsewhere
Image(at, seq) == [i \in at..(at + Len(seq) - 1) |-> seq[i - at + 1]]

\* an opcode followed by its 8 operand bytes, most significant first
Enc(op, n) == <<op, 0, 0, 0, 0, n \div 16777216, (n \div 65536) % 256,
               (n \div 256) % 256, n % 256>>

\* addresses the programs use: cache, its last word, the image region, the
\* two devices, and addresses no device owns
DevAddrs == {131072, 131077, 196608, 262144}
Addrs == {0, 1, 65534, 65535, 65536, 70000, 131071, 131077, 196608, 262144}

\* A <- load(d); store(a, A); B <- load(a)
StoreLoadImages ==
    { Image(0, Enc(1, d) \o Enc(10, a) \o Enc(2, a)) : d \in DevAddrs, a \in Addrs }

\* A <- load(0x30000); swap A, B; A <- load(0x20000); then one
\* register-only opcode
ArithImages ==
    { Image(0, Enc(1, 196608) \o <<9>> \o Enc(1, 131072) \o <<op>>) : op \in 3..9 }

\* a load and a store at addresses of more than 32 bits: 2^32 and 2^64 - 1
HighImages ==
    { Image(0, <<op>> \o hi) :
        op \in {1, 10}, hi \in {<<0, 0, 0, 1, 0, 0, 0, 0>>, MaxWord} }

\* the scenario of the spec: LoadA 5; PushABus 0
ScenarioImage == Image(0, Enc(12, 5) \o Enc(10, 0))

\* one byte b at index at of an otherwise zero image
ByteImages == { Image(at, <<b>>) : at \in {0, 2}, b \in Byte }

HeadImages ==
    StoreLoadImages \cup ArithImages \cup ByteImages \cup HighImages
    \cup {ScenarioImage}

\* images whose only non-zero byte is among the last nine of the array
TailImages ==
    { Image(ImageLen - 1, <<b>>) : b \in {0, 1, 17, 38, 39, 255} }
    \cup { Image(ImageLen - 8, <<b>>) : b \in {10, 12} }
    \cup { Image(ImageLen - 9, <<b>>) : b \in {2, 16} }

\* ----------------------------------------------------------- the machine

\* Cpu::new(instructions, devices) in a build with or without overflow
\* checks, driven by a host that will call tick() n times
New(image, devs, checks, n) ==
    /\ reg_a = Zero
    /\ reg_b = Zero
    /\ reg_s = Zero
    /\ reg_x = Zero
    /\ cache = << >>
    /\ instructions = image
    /\ devices = devs
    /\ overflow_checks = checks
    /\ host_ticks = n
    /\ calls = 0
    /\ inst = NoInst
    /\ outcome = "New"
    /\ bus = <<>>

Init ==
    \E image \in HeadImages, devs \in DeviceLists, checks \in BOOLEAN :
        New(image, devs, checks, HeadTicks)

InitTail ==
    \E image \in TailImages : New(image, NoDevices, TRUE, ImageLen + TailExtra)

\* one call of tick(); a panic unwinds out of the host, which calls no more
Tick ==
    /\ calls < host_ticks
    /\ outcome # "Panic"
    /\ \E vals \in [1..Len(devices) -> DevValues] :
         \E t \in {tick(vals)} :
            /\ reg_x' = t.x
            /\ reg_a' = t.after.a
            /\ reg_b' = t.after.b
            /\ cache' = t.after.cache
            /\ instructions' = t.after.instructions
            /\ outcome' = t.after.outcome
            /\ bus' = t.after.bus
            /\ inst' = t.inst
    /\ calls' = calls + 1
    /\ UNCHANGED <<reg_s, devices, overflow_checks, host_ticks>>

Next == Tick

Spec == Init /\ [][Next]_vars

SpecTail == InitTail /\ [][Next]_vars

\* -------------------------------------------------------------- claims

\* the errors CPUError names in lib.rs
TypedErrors ==
    {"OutOfInstructions", "IllegalInstruction", "IllegalAddressLoad", "IllegalAddressPush"}

\* the operand of the opcode at index i of the image
Operand(i) == from_be_bytes(ImageSlice(instructions, i + 1, WordBytes))

\* what a load of arg gives in the current state (no device consulted
\* below 131072; above, every device answers 0)
LoadNow(arg) ==
    load_base(cache, instructions, devices, [i \in 1..Len(devices) |-> Zero], arg)

\* C1: when the image starts with LoadA v; PushABus a, a in 0..65535, then
\* after exactly two calls of tick() the last call has succeeded and
\* memory[a] = v (implied by the claim, which also wants the first call to
\* succeed).
C1_TwoTicksStoreImmediate ==
    (/\ ImageGet(instructions, 0) = 12
     /\ ImageGet(instructions, 9) = 10
     /\ WLe(Operand(9), W(CacheTop))
     /\ calls = 2)
    => /\ outcome = "Ok"
       /\ CacheGet(cache, as_usize(Operand(9))) = Operand(0)

\* C2: a call of tick() made when reg_x is past the last index of the
\* image ends with OutOfInstructions.
C2_PastEndIsOutOfInstructions ==
    [][~WLt(reg_x, W(ImageLen)) => outcome' = "OutOfInstructions"]_vars

C2_Witness ==
    /\ outcome = "OutOfInstructions"
    /\ reg_x = W(ImageLen + 1)
    /\ calls = ImageLen + 1

\* C3: a call of tick() at an index of the image ends with
\* IllegalInstruction exactly when the byte there is in 39..255.
C3_IllegalExactlyFrom39 ==
    [][WLt(reg_x, W(ImageLen)) =>
         (outcome' = "IllegalInstruction"
            <=> ImageGet(instructions, as_usize(reg_x)) \in 39..255)]_vars

C3_Witness ==
    /\ outcome = "IllegalInstruction"
    /\ reg_x = W(3)
    /\ ImageGet(instructions, 2) = 39

\* C4: a call of tick() that executes Divide with B = 0 ends with
\* DivideByZero and leaves A as it was.
C4_DivideByZeroIsAnError ==
    [][(inst'.op = "Divide" /\ reg_b = Zero)
         => (outcome' = "DivideByZero" /\ reg_a' = reg_a)]_vars

\* C5: a store of A to an address in 0..65535 (PushABus) succeeds, and a
\* load from that address then succeeds and gives the value stored.
C5_CacheRoundTrip ==
    (inst.op = "PushABus" /\ WLe(inst.arg, W(CacheTop)))
    => /\ outcome = "Ok"
       /\ LoadNow(inst.arg) = Ok(reg_a, <<>>)

\* C6: a store of A to an address a in 65536..131071 (PushABus) succeeds
\* and writes the low byte of A to program[a - 65536], and a load from a
\* then succeeds and gives A & 0xFF.
C6_ImageTruncation ==
    (/\ inst.op = "PushABus"
     /\ WLt(W(CacheTop), inst.arg)
     /\ WLe(inst.arg, W(ImageTop)))
    => /\ outcome = "Ok"
       /\ ImageGet(instructions, as_usize(inst.arg) - (CacheTop + 1)) = as_u8(reg_a)
       /\ LoadNow(inst.arg) = Ok(as_u64(as_u8(reg_a)), <<>>)

\* arg lies in the inclusive range [d.min, d.max]
Within(d, arg) == ~WLt(arg, d.min) /\ ~WLt(d.max, arg)

\* an address above 131071 that no device of the list has in its range
Unclaimed(arg) ==
    /\ WLt(W(ImageTop), arg)
    /\ \A i \in 1..Len(devices) : ~Within(devices[i], arg)

\* C7: a load (LoadBusA, LoadBusB) from an unclaimed address ends with
\* IllegalAddressLoad and a store (PushABus) to one with
\* IllegalAddressPush; no device is invoked, and A, B, S, every memory
\* word and every program byte keep their values (reg_x holds the
\* increment tick() made before it routed the address).
C7_UnclaimedAddressFails ==
    [][(inst'.op \in {"LoadBusA", "LoadBusB", "PushABus"} /\ Unclaimed(inst'.arg))
         => /\ outcome' = (IF inst'.op = "PushABus" THEN "IllegalAddressPush"
                           ELSE "IllegalAddressLoad")
            /\ bus' = <<>>
            /\ UNCHANGED <<reg_a, reg_b, reg_s, cache, instructions>>]_vars

C7_Witness ==
    /\ inst = Instr("LoadBusA", W(262144))
    /\ devices = TwoDevices
    /\ outcome = "IllegalAddressLoad"

\* two devices whose inclusive ranges share no address
Disjoint(devs) ==
    /\ Len(devs) = 2
    /\ WLe(devs[1].min, devs[1].max)
    /\ WLe(devs[2].min, devs[2].max)
    /\ WLt(devs[1].max, devs[2].min) \/ WLt(devs[2].max, devs[1].min)

\* C8: with two devices of disjoint ranges, a load or store routed to an
\* address of the first device's range invokes that device's load (push)
\* once, with that address, and nothing of the second device.
C8_OnlyFirstDeviceReached ==
    (/\ Disjoint(devices)
     /\ inst.op \in {"LoadBusA", "LoadBusB", "PushABus"}
     /\ WLt(W(ImageTop), inst.arg)
     /\ Within(devices[1], inst.arg))
    => /\ Len(bus) = 1
       /\ bus[1].dev = 1
       /\ bus[1].addr = inst.arg
       /\ bus[1].op = (IF inst.op = "PushABus" THEN "push" ELSE "load")

C8_Witness ==
    /\ devices = TwoDevices
    /\ inst = Instr("PushABus", W(131077))
    /\ bus = <<BusCall(1, "push", W(131077), MaxWord)>>

\* C9: a call of tick() that ends with OutOfInstructions or
\* IllegalInstruction leaves A, B, S, X, every memory word and every
\* program byte as they were.
C9_DecodeFailureChangesNothing ==
    [][outcome' \in {"OutOfInstructions", "IllegalInstruction"}
         => UNCHANGED <<reg_a, reg_b, reg_s, reg_x, cache, instructions>>]_vars

\* C10: a call of tick() at an index of the image that holds an opcode
\* with an operand, fewer than 8 bytes before the end of the image, ends
\* with one of the typed errors.
C10_TruncatedOperandIsAnError ==
    [][(/\ WLt(reg_x, W(ImageLen))
        /\ ImageGet(instructions, as_usize(reg_x)) \in ArgOpcodes
        /\ as_usize(reg_x) + WordBytes > ImageLen - 1)
         => outcome' \in TypedErrors]_vars

\* C11: a call of tick() that ends with an error raised while executing
\* (IllegalAddressLoad, IllegalAddressPush, DivideByZero) leaves A, B, S,
\* X, every memory word and every program byte as they were, and has made
\* no device store.
C11_ExecutionFailureChangesNothing ==
    [][outcome' \in {"IllegalAddressLoad", "IllegalAddressPush", "DivideByZero"}
         => /\ UNCHANGED <<reg_a, reg_b, reg_s, reg_x, cache, instructions>>
            /\ \A k \in 1..Len(bus') : bus'[k].op # "push"]_vars

\* the register-only instructions of opcodes 0 and 3..9
RegisterOps ==
    {"NoOp", "Add", "Subtract", "Multiply", "Divide", "CopyAB", "CopyBA", "SwapAB"}

\* op on a and b stays inside the u64 range and does not divide by 0
Defined(op, a, b) ==
    /\ op = "Add" => ~AddOverflows(a, b)
    /\ op = "Subtract" => ~WLt(a, b)
    /\ op = "Multiply" => ~MulOverflows(a, b)
    /\ op = "Divide" => b # Zero

\* a u64 below 2^12, whose sums and products fit a model integer
Tiny(w) == w[2] < 16 /\ \A i \in 3..WordBytes : w[i] = 0

\* C12: a call of tick() that executes NoOp, Add, Subtract, Multiply,
\* Divide, CopyAB, CopyBA or SwapAB, without overflow and with B # 0 for
\* Divide, succeeds; A and B become what the dispatch table says (the one
\* that is not the target keeps its value); S, every memory word and every
\* program byte keep their values.
C12_RegisterOpsEffect ==
    [][(inst'.op \in RegisterOps /\ Defined(inst'.op, reg_a, reg_b))
         => /\ outcome' = "Ok"
            /\ UNCHANGED <<reg_s, cache, instructions>>
            /\ inst'.op \notin {"CopyAB", "SwapAB"} => reg_b' = reg_b
            /\ inst'.op = "NoOp" => reg_a' = reg_a
            /\ inst'.op = "Add" =>
                 /\ WrappingSub(reg_a', reg_b) = reg_a
                 /\ ~WLt(reg_a', reg_a)
                 /\ (Tiny(reg_a) /\ Tiny(reg_b)) =>
                      reg_a' = W(as_usize(reg_a) + as_usize(reg_b))
            /\ inst'.op = "Subtract" =>
                 /\ WrappingAdd(reg_a', reg_b) = reg_a
                 /\ ~WLt(reg_a, reg_a')
                 /\ (Tiny(reg_a) /\ Tiny(reg_b)) =>
                      reg_a' = W(as_usize(reg_a) - as_usize(reg_b))
            /\ inst'.op = "Multiply" =>
                 /\ reg_b # Zero => Quotient(reg_a', reg_b) = reg_a
                 /\ reg_b = Zero => reg_a' = Zero
                 /\ (Tiny(reg_a) /\ Tiny(reg_b)) =>
                      reg_a' = W(as_usize(reg_a) * as_usize(reg_b))
            /\ inst'.op = "Divide" =>
                 /\ ~MulOverflows(reg_a', reg_b)
                 /\ ~WLt(reg_a, WrappingMul(reg_a', reg_b))
                 /\ WLt(WrappingSub(reg_a, WrappingMul(reg_a', reg_b)), reg_b)
                 /\ (Tiny(reg_a) /\ Tiny(reg_b)) =>
                      reg_a' = W(as_usize(reg_a) \div as_usize(reg_b))
            /\ inst'.op = "CopyAB" => (reg_b' = reg_a /\ reg_a' = reg_a)
            /\ inst'.op = "CopyBA" => reg_a' = reg_b
            /\ inst'.op = "SwapAB" => (reg_a' = reg_b /\ reg_b' = reg_a)]_vars

\* 2^64 - 1 divided by 511 left 0x00_8040_2010_0804_02 in A
C12_Witness ==
    /\ inst.op = "Divide"
    /\ outcome = "Ok"
    /\ reg_b = W(511)
    /\ reg_a = <<2, 4, 8, 16, 32, 64, 128, 0>>

\* the u64 whose most significant byte is image byte i + 1 and whose least
\* significant byte is image byte i + 8
BigEndianAfter(i) ==
    << ImageGet(instructions, i + 8), ImageGet(instructions, i + 7),
       ImageGet(instructions, i + 6), ImageGet(instructions, i + 5),
       ImageGet(instructions, i + 4), ImageGet(instructions, i + 3),
       ImageGet(instructions, i + 2), ImageGet(instructions, i + 1) >>

\* C13: a call of tick() at index p holding opcode 1, 2 or 10 decodes as
\* operand the big-endian u64 of image bytes p+1..p+8; when it succeeds,
\* LoadBusA has set A (LoadBusB: B) to the word of memory at that address,
\* or, above 131071, to what the last device called answered, and
\* PushABus has stored A in the word of memory at that address, or, above
\* 131071, pushed A to devices at that address; the other registers among
\* A, B, S, the other memory words and the program bytes keep their
\* values.  (No tick succeeds at an address in 65535..131071: C5, C6.)
C13_BusOpsEffect ==
    [][(/\ WLt(reg_x, W(ImageLen))
        /\ ImageGet(instructions, as_usize(reg_x)) \in {1, 2, 10}
        /\ inst'.op # "None")
         => /\ inst'.op = OpTable[ImageGet(instructions, as_usize(reg_x)) + 1]
            /\ inst'.arg = BigEndianAfter(as_usize(reg_x))
            /\ outcome' = "Ok" =>
                 /\ reg_s' = reg_s
                 /\ instructions' = instructions
                 /\ inst'.op # "LoadBusA" => reg_a' = reg_a
                 /\ inst'.op # "LoadBusB" => reg_b' = reg_b
                 /\ inst'.op \in {"LoadBusA", "LoadBusB"} =>
                      /\ cache' = cache
                      /\ LET got == IF inst'.op = "LoadBusA" THEN reg_a' ELSE reg_b'
                         IN IF ~WLt(W(CacheTop), inst'.arg)
                            THEN got = CacheGet(cache, as_usize(inst'.arg)) /\ bus' = <<>>
                            ELSE /\ bus' # <<>>
                                 /\ got = bus'[Len(bus')].val
                                 /\ \A k \in 1..Len(bus') :
                                      bus'[k].op = "load" /\ bus'[k].addr = inst'.arg
                 /\ inst'.op = "PushABus" =>
                      IF ~WLt(W(CacheTop), inst'.arg)
                      THEN /\ CacheGet(cache', as_usize(inst'.arg)) = reg_a
                           /\ bus' = <<>>
                           /\ \A j \in ((DOMAIN cache) \cup (DOMAIN cache'))
                                         \ {as_usize(inst'.arg)} :
                                CacheGet(cache', j) = CacheGet(cache, j)
                      ELSE /\ cache' = cache
                           /\ bus' # <<>>
                           /\ \A k \in 1..Len(bus') :
                                /\ bus'[k].op = "push"
                                /\ bus'[k].addr = inst'.arg
                                /\ bus'[k].val = reg_a]_vars

\* B <- load(65534) after 2^64 - 1 was stored there
C13_Witness ==
    /\ inst = Instr("LoadBusB", W(65534))
    /\ outcome = "Ok"
    /\ CacheGet(cache, 65534) = MaxWord
    /\ reg_b = MaxWord

\* the call returned no CPUError and did not panic
Succeeded(out) == out \in {"Ok", "Unit"}

\* the word of memory at a cache address after the call
Stored(arg) == CacheGet(cache', as_usize(arg))

\* C14: a call of tick() that executes one of the instructions of opcodes
\* 11..33 and succeeds has the effect the dispatch table gives it:
\* LoadA/LoadX set A/X to the operand; the Copy instructions copy the first
\* register named to the second; the Swap instructions exchange two
\* registers; PushBBus/PushXBus store B/X at the operand address and the
\* ...S forms at address S; LoadBusX and the Load...S forms load from the
\* operand address or from address S (stores and loads are stated for
\* addresses of the cache, 0..65534).
C14_DispatchTableEffect ==
    [][(inst'.op \in {OpTable[b + 1] : b \in 11..33} /\ Succeeded(outcome'))
         => /\ inst'.op = "PushBBus" /\ WLt(inst'.arg, W(CacheLen))
                 => Stored(inst'.arg) = reg_b
            /\ inst'.op = "LoadA" => reg_a' = inst'.arg
            /\ inst'.op = "LoadBusX" /\ WLt(inst'.arg, W(CacheLen))
                 => reg_x' = CacheGet(cache, as_usize(inst'.arg))
            /\ inst'.op = "CopyAX" => reg_x' = reg_a
            /\ inst'.op = "CopyBX" => reg_x' = reg_b
            /\ inst'.op = "PushXBus" /\ WLt(inst'.arg, W(CacheLen))
                 => Stored(inst'.arg) = WrappingAdd(reg_x, W(1))
            /\ inst'.op = "LoadX" => reg_x' = inst'.arg
            /\ inst'.op = "CopyXA" => reg_a' = WrappingAdd(reg_x, W(1))
            /\ inst'.op = "CopyXB" => reg_b' = WrappingAdd(reg_x, W(1))
            /\ inst'.op = "LoadBusAS" /\ WLt(reg_s, W(CacheLen))
                 => reg_a' = CacheGet(cache, as_usize(reg_s))
            /\ inst'.op = "LoadBusBS" /\ WLt(reg_s, W(CacheLen))
                 => reg_b' = CacheGet(cache, as_usize(reg_s))
            /\ inst'.op = "CopyAS" => reg_s' = reg_a
            /\ inst'.op = "CopyBS" => reg_s' = reg_b
            /\ inst'.op = "CopyXS" => reg_s' = WrappingAdd(reg_x, W(1))
            /\ inst'.op = "CopySA" => reg_a' = reg_s
            /\ inst'.op = "CopySB" => reg_b' = reg_s
            /\ inst'.op = "CopySX" => reg_x' = reg_s
            /\ inst'.op = "SwapAS" => (reg_a' = reg_s /\ reg_s' = reg_a)
            /\ inst'.op = "SwapBS" => (reg_b' = reg_s /\ reg_s' = reg_b)
            /\ inst'.op = "PushABusS" /\ WLt(reg_s, W(CacheLen))
                 => Stored(reg_s) = reg_a
            /\ inst'.op = "PushBBusS" /\ WLt(reg_s, W(CacheLen))
                 => Stored(reg_s) = reg_b
            /\ inst'.op = "LoadBusXS" /\ WLt(reg_s, W(CacheLen))
                 => reg_x' = CacheGet(cache, as_usize(reg_s))
            /\ inst'.op = "PushXBusS" /\ WLt(reg_s, W(CacheLen))
                 => Stored(reg_s) = WrappingAdd(reg_x, W(1))]_vars

\* C15: no call of tick() leaves reg_x smaller than it was, whatever it
\* decoded and however it ended.
C15_RegXNeverDecreases ==
    [][~WLt(reg_x', reg_x)]_vars

\* the 28th call, after calls that failed and calls that decoded LoadX
C15_Witness ==
    /\ calls = HeadTicks
    /\ reg_x = W(HeadTicks)
    /\ ImageGet(instructions, 0) = 17
    /\ outcome = "Ok"

\* the devices of the list whose range contains arg
Matching(arg) == {i \in 1..Len(devices) : Within(devices[i], arg)}

\* C16: after a load (LoadBusA, LoadBusB) or store (PushABus) at an address
\* above 131071 that several devices have in their range, the devices
\* invoked are exactly those devices, each once, in list order, at that
\* address; a store pushed A to each of them, and a load left in its
\* register the value the last of them answered.
C16_AllStoredLastLoaded ==
    (/\ inst.op \in {"LoadBusA", "LoadBusB", "PushABus"}
     /\ WLt(W(ImageTop), inst.arg)
     /\ Cardinality(Matching(inst.arg)) >= 2)
    => /\ outcome = "Ok"
       /\ Len(bus) = Cardinality(Matching(inst.arg))
       /\ {bus[k].dev : k \in 1..Len(bus)} = Matching(inst.arg)
       /\ \A k \in 1..(Len(bus) - 1) : bus[k].dev < bus[k + 1].dev
       /\ \A k \in 1..Len(bus) :
            /\ bus[k].addr = inst.arg
            /\ bus[k].op = (IF inst.op = "PushABus" THEN "push" ELSE "load")
            /\ inst.op = "PushABus" => bus[k].val = reg_a
       /\ inst.op = "LoadBusA" => reg_a = bus[Len(bus)].val
       /\ inst.op = "LoadBusB" => reg_b = bus[Len(bus)].val

C16_Witness ==
    /\ devices = Overlapping
    /\ inst = Instr("LoadBusA", W(196608))
    /\ bus = <<BusCall(1, "load", W(196608), W(5)),
               BusCall(2, "load", W(196608), MaxWord)>>
    /\ reg_a = MaxWord

\* C17: a load or store at an address in 0..131071 invokes no device,
\* even when a device's range contains the address: it is served by the
\* memory words (or aborts on the arrays' bounds, C5 and C6) and never ends
\* with a bus error; whenever a device was invoked, the address is above
\* 131071.
C17_LowAddressesNeverReachDevices ==
    /\ (/\ inst.op \in {"LoadBusA", "LoadBusB", "PushABus"}
        /\ ~WLt(W(ImageTop), inst.arg))
       => /\ bus = <<>>
          /\ outcome \in {"Ok", "Panic"}
          /\ outcome = "Ok" =>
               CacheGet(cache, as_usize(inst.arg))
                  = (IF inst.op = "LoadBusB" THEN reg_b ELSE reg_a)
    /\ bus # <<>> => WLt(W(ImageTop), inst.arg)

C17_Witness ==
    /\ devices = Covering
    /\ inst = Instr("LoadBusB", W(65534))
    /\ outcome = "Ok"
    /\ bus = <<>>
    /\ reg_b = W(511)

\* C18: a call of tick() that decodes Add, Subtract or Multiply with A and
\* B whose exact result lies outside 0..2^64-1 either succeeds with A the
\* result modulo 2^64, or ends with ArithmeticOverflow and A unchanged.
C18_OverflowHasOneOutcome ==
    [][(\/ inst'.op = "Add" /\ AddOverflows(reg_a, reg_b)
        \/ inst'.op = "Subtract" /\ WLt(reg_a, reg_b)
        \/ inst'.op = "Multiply" /\ MulOverflows(reg_a, reg_b))
         => \/ /\ outcome' = "Ok"
               /\ reg_a' = (CASE inst'.op = "Add" -> WrappingAdd(reg_a, reg_b)
                              [] inst'.op = "Subtract" -> WrappingSub(reg_a, reg_b)
                              [] inst'.op = "Multiply" -> WrappingMul(reg_a, reg_b))
            \/ /\ outcome' = "ArithmeticOverflow"
               /\ reg_a' = reg_a]_vars

\* the relation a skip instruction names, on A and B
SkipRelation(op, a, b) ==
    CASE op = "SkipEq" -> a = b
      [] op = "SkipGrEq" -> WLe(b, a)
      [] op = "SkipGr" -> WLt(b, a)
      [] op = "SkipLe" -> WLt(a, b)
      [] op = "SkipLeEq" -> WLe(a, b)

\* C19: a call of tick() that decodes a skip instruction (opcodes 34..38)
\* leaves A, B, S, every memory word and every program byte unchanged; when
\* the named relation holds between A and B it leaves reg_x beyond the index
\* of the next instruction (more than one past its old value), and when the
\* relation does not hold it leaves reg_x one past its old value.
C19_SkipAdvancesPastNext ==
    [][inst'.op \in {"SkipEq", "SkipGrEq", "SkipGr", "SkipLe", "SkipLeEq"}
         => /\ UNCHANGED <<reg_a, reg_b, reg_s, cache, instructions>>
            /\ IF SkipRelation(inst'.op, reg_a, reg_b)
               THEN WLt(WrappingAdd(reg_x, W(1)), reg_x')
               ELSE reg_x' = WrappingAdd(reg_x, W(1))]_vars

\* the opcode bytes the decoder turns into variant v (decoding at index 0
\* of the current image, where every operand is in range)
OpcodesOf(v) ==
    {b \in Byte : LET d == DecodeByte(instructions, W(1), b)
                  IN d.tag = "Ok" /\ d.val.op = v}

\* C20: every instruction variant, LoadB included, is decoded from exactly
\* one opcode byte, that byte is one of 0..38, and no two opcode bytes
\* decode to the same variant.
C20_DecoderOneToOne ==
    \A v \in Variants :
        /\ Cardinality(OpcodesOf(v)) = 1
        /\ OpcodesOf(v) \subseteq 0..38

====
